---- MODULE Spec2Model ----
(***************************************************************************)
(* A model of the UDP example of the OpenThread CLI (src/cli/cli_udp.cpp): *)
(* the command dispatcher, the socket session handlers, the send argument  *)
(* resolver, the two payload builders and the receive notifier.            *)
(*                                                                         *)
(* Tokens and output lines are sequences of one-character strings, bytes   *)
(* are numbers in 0..255, error codes are strings named after otError.     *)
(***************************************************************************)
EXTENDS Integers, Sequences, FiniteSets, TLC

VARIABLES
    mSocket,               \* the session's socket: [open, sockName, peerName]
    mLinkSecurityEnabled,  \* the session's link-security flag
    invoked,               \* what ran last: "none", "process" or "receive"
    lastArgs,              \* the argument list of the last Process call
    lastEnv,               \* the collaborators' outcomes during that call
    pre,                   \* the session as it was when that call started
    result,                \* the otError that call returned
    output,                \* the output fragments that call wrote, in order
    calls,                 \* the collaborators that call invoked, in order
    handlers,              \* the handlers that call ran, in order
    argsRead,              \* the argument indices (0-based) the handler read
    message,               \* the message of that call: [allocated, bytes, handed, freed]
    sent,                  \* what the transport was given: [ok, bytes, info, linkSecurity]
    registrations,         \* receive callbacks registered since the last close
    stream,                \* the output stream under preemptive delivery
    cmdPc,                 \* position of the help loop under preemptive delivery
    rxPc,                  \* position of the receive notifier under preemptive delivery
    rxMsg,                 \* the datagram the notifier is formatting
    rxCount,               \* notifications started under preemptive delivery
    cmdCount               \* commands started under preemptive delivery

vars == <<mSocket, mLinkSecurityEnabled, invoked, lastArgs, lastEnv, pre, result,
          output, calls, handlers, argsRead, message, sent, registrations,
          stream, cmdPc, rxPc, rxMsg, rxCount, cmdCount>>

(***************************************************************************)
(* Bounds of the model.                                                    *)
(***************************************************************************)
\* the largest length given to "send -s <length>"
MaxAutoLength == 130
\* the largest index of an otMessageAppend call that is made to fail
MaxFailAt == 3
\* the largest number of extra hex segments of the long hex strings
MaxExtraSegments == 2
\* the cap of the callback registration counter
MaxRegistrations == 2
\* notifications and commands started in a preemptive run
MaxRx == 1
MaxAsyncCmds == 1

(***************************************************************************)
(* Characters.                                                             *)
(***************************************************************************)
\* the printable ASCII characters, from ' ' (32) to '~' (126); the grave accent
\* (96), which a TLA+ string cannot hold, is spelled out
AsciiChars ==
    <<" ", "!", "\"", "#", "$", "%", "&", "'", "(", ")", "*", "+", ",", "-", ".", "/",
      "0", "1", "2", "3", "4", "5", "6", "7", "8", "9", ":", ";", "<", "=", ">", "?",
      "@", "A", "B", "C", "D", "E", "F", "G", "H", "I", "J", "K", "L", "M", "N", "O",
      "P", "Q", "R", "S", "T", "U", "V", "W", "X", "Y", "Z", "[", "\\", "]", "^", "_",
      "grave", "a", "b", "c", "d", "e", "f", "g", "h", "i", "j", "k", "l", "m", "n", "o",
      "p", "q", "r", "s", "t", "u", "v", "w", "x", "y", "z", "{", "|", "}", "~">>

\* the byte value of a character
OrdTable ==
    [c \in {AsciiChars[i] : i \in 1..Len(AsciiChars)} |->
        31 + CHOOSE i \in 1..Len(AsciiChars) : AsciiChars[i] = c]

Ord(c) == OrdTable[c]

\* the character of a byte value
Chr(b) == AsciiChars[b - 31]

\* the bytes of a C string
Bytes(str) == [i \in 1..Len(str) |-> Ord(str[i])]

Min(a, b) == IF a < b THEN a ELSE b

(***************************************************************************)
(* Error codes.                                                            *)
(***************************************************************************)
OT_ERROR_NONE == "NONE"
OT_ERROR_FAILED == "FAILED"
OT_ERROR_NO_BUFS == "NO_BUFS"
OT_ERROR_INVALID_ARGS == "INVALID_ARGS"
OT_ERROR_ALREADY == "ALREADY"
OT_ERROR_INVALID_COMMAND == "INVALID_COMMAND"
OT_ERROR_PENDING == "PENDING"

(***************************************************************************)
(* Tokens.                                                                 *)
(***************************************************************************)
kHelp == <<"h", "e", "l", "p">>
kBind == <<"b", "i", "n", "d">>
kConnect == <<"c", "o", "n", "n", "e", "c", "t">>
kClose == <<"c", "l", "o", "s", "e">>
kOpen == <<"o", "p", "e", "n">>
kSend == <<"s", "e", "n", "d">>
kLinkSecurity == <<"l", "i", "n", "k", "s", "e", "c", "u", "r", "i", "t", "y">>
kUnknown == <<"u", "n", "k", "n", "o", "w", "n">>
kEnable == <<"e", "n", "a", "b", "l", "e">>
kDisable == <<"d", "i", "s", "a", "b", "l", "e">>
kMarkerS == <<"-", "s">>
kMarkerX == <<"-", "x">>
kMarkerT == <<"-", "t">>
kLoopback == <<":", ":", "1">>
kMulticast == <<"f", "f", "0", "2", ":", ":", "1">>
kNotAnIp == <<"n", "o", "t", "-", "a", "n", "-", "i", "p">>
kPort == <<"1", "2", "3", "4">>
kPortTooBig == <<"6", "5", "5", "3", "6">>
kPortNotNumeric == <<"1", "2", "x">>
kHello == <<"h", "e", "l", "l", "o">>
kHi == <<"H", "i">>
kHexHello == <<"4", "8", "6", "5", "6", "c", "6", "c", "6", "f">>
kHexMixed == <<"4", "A", "6", "b", "F", "f">>
kHexOdd == <<"a", "b", "c">>
kHexBad == <<"4", "8", "z", "z">>

\* the decimal digits of n
RECURSIVE ToDec(_)
ToDec(n) == IF n < 10 THEN <<Chr(48 + n)>> ELSE Append(ToDec(n \div 10), Chr(48 + (n % 10)))

\* the two hex digits (lower case) of each byte
HexDigitChar(v) == IF v < 10 THEN Chr(48 + v) ELSE Chr(97 + v - 10)

HexEncode(bytes) ==
    [i \in 1..(2 * Len(bytes)) |->
        IF i % 2 = 1 THEN HexDigitChar(bytes[(i + 1) \div 2] \div 16)
        ELSE HexDigitChar(bytes[i \div 2] % 16)]

\* a string with its letters A-Z in lower case
ToLower(str) ==
    [i \in 1..Len(str) |->
        IF Ord(str[i]) >= 65 /\ Ord(str[i]) <= 90 THEN Chr(Ord(str[i]) + 32) ELSE str[i]]

(***************************************************************************)
(* Collaborators: the argument parsers, the command table and the          *)
(* transport layer.                                                        *)
(***************************************************************************)
\* the unspecified address and endpoint (memset to zero)
kUnspecifiedAddress == <<0, 0, 0, 0, 0, 0, 0, 0>>
kUnspecifiedEndpoint == [addr |-> kUnspecifiedAddress, port |-> 0]

\* the address texts the model knows, with their eight 16-bit groups
Ip6Table ==
    <<[text |-> kLoopback, addr |-> <<0, 0, 0, 0, 0, 0, 0, 1>>],
      [text |-> kMulticast, addr |-> <<65282, 0, 0, 0, 0, 0, 0, 1>>]>>

\* Arg::ParseAsIp6Address: the address of a well-formed text, or InvalidArguments
ParseAsIp6Address(arg) ==
    IF \E i \in 1..Len(Ip6Table) : Ip6Table[i].text = arg
    THEN [error |-> OT_ERROR_NONE,
          value |-> Ip6Table[CHOOSE i \in 1..Len(Ip6Table) : Ip6Table[i].text = arg].addr]
    ELSE [error |-> OT_ERROR_INVALID_ARGS, value |-> kUnspecifiedAddress]

IsDigit(c) == Ord(c) >= 48 /\ Ord(c) <= 57

\* the value of a string of decimal digits, read left to right
RECURSIVE DecimalValue(_, _)
DecimalValue(str, acc) ==
    IF str = <<>> THEN acc
    ELSE DecimalValue(Tail(str), Min(acc * 10 + (Ord(Head(str)) - 48), 65536))

\* Arg::ParseAsUint16: a decimal number that fits 16 bits, or InvalidArguments
ParseAsUint16(arg) ==
    IF arg = <<>> \/ \E i \in 1..Len(arg) : ~IsDigit(arg[i])
    THEN [error |-> OT_ERROR_INVALID_ARGS, value |-> 0]
    ELSE IF DecimalValue(arg, 0) > 65535
         THEN [error |-> OT_ERROR_INVALID_ARGS, value |-> 0]
         ELSE [error |-> OT_ERROR_NONE, value |-> DecimalValue(arg, 0)]

\* Interpreter::ParseEnableOrDisable
ParseEnableOrDisable(arg, current) ==
    IF arg = kEnable THEN [error |-> OT_ERROR_NONE, value |-> TRUE]
    ELSE IF arg = kDisable THEN [error |-> OT_ERROR_NONE, value |-> FALSE]
    ELSE [error |-> OT_ERROR_INVALID_ARGS, value |-> current]

\* Interpreter::OutputEnabledDisabledStatus
EnabledDisabledStatus(enabled) ==
    IF enabled THEN <<"E", "n", "a", "b", "l", "e", "d">>
    ELSE <<"D", "i", "s", "a", "b", "l", "e", "d">>

IsHexDigit(c) ==
    \/ Ord(c) >= 48 /\ Ord(c) <= 57
    \/ Ord(c) >= 65 /\ Ord(c) <= 70
    \/ Ord(c) >= 97 /\ Ord(c) <= 102

\* the value of one hex digit
ParseHexDigit(c) ==
    IF Ord(c) <= 57 THEN Ord(c) - 48
    ELSE IF Ord(c) <= 70 THEN Ord(c) - 65 + 10
    ELSE Ord(c) - 97 + 10

\* the bytes of the first n digit pairs of a string
HexDecode(str, n) ==
    [i \in 1..n |-> ParseHexDigit(str[2 * i - 1]) * 16 + ParseHexDigit(str[2 * i])]

\* Utils::CmdLineParser::ParseAsHexStringSegment: decodes at most aSize bytes
\* from the front of the string and advances it; Pending when more remains.
ParseAsHexStringSegment(aString, aSize) ==
    LET expectedSize == Len(aString) \div 2
        parsedSize == Min(expectedSize, aSize)
    IN  IF Len(aString) % 2 # 0 \/ \E i \in 1..(2 * parsedSize) : ~IsHexDigit(aString[i])
        THEN [error |-> OT_ERROR_INVALID_ARGS, length |-> 0, buf |-> <<>>, rest |-> aString]
        ELSE [error |-> IF expectedSize > aSize THEN OT_ERROR_PENDING ELSE OT_ERROR_NONE,
              length |-> parsedSize,
              buf |-> HexDecode(aString, parsedSize),
              rest |-> SubSeq(aString, 2 * parsedSize + 1, Len(aString))]

\* UdpExample::sCommands: the command table
sCommands ==
    <<[mName |-> kHelp, mHandler |-> "ProcessHelp"],
      [mName |-> kBind, mHandler |-> "ProcessBind"],
      [mName |-> kConnect, mHandler |-> "ProcessConnect"],
      [mName |-> kClose, mHandler |-> "ProcessClose"],
      [mName |-> kOpen, mHandler |-> "ProcessOpen"],
      [mName |-> kSend, mHandler |-> "ProcessSend"],
      [mName |-> kLinkSecurity, mHandler |-> "ProcessLinkSecurity"]>>

\* Utils::LookupTable::Find: the index of the entry named aName, 0 when none
Find(aName, table) ==
    IF \E i \in 1..Len(table) : table[i].mName = aName
    THEN CHOOSE i \in 1..Len(table) :
            /\ table[i].mName = aName
            /\ \A j \in 1..(i - 1) : table[j].mName # aName
    ELSE 0

\* the socket after the constructor's memset
kClosedSocket ==
    [open |-> FALSE, sockName |-> kUnspecifiedEndpoint, peerName |-> kUnspecifiedEndpoint]

otUdpIsOpen(socket) == socket.open

otUdpOpen(socket) ==
    [error |-> OT_ERROR_NONE, socket |-> [socket EXCEPT !.open = TRUE]]

otUdpClose(socket) ==
    [error |-> OT_ERROR_NONE, socket |-> kClosedSocket]

otUdpBind(socket, sockaddr, ok) ==
    IF ok THEN [error |-> OT_ERROR_NONE, socket |-> [socket EXCEPT !.sockName = sockaddr]]
    ELSE [error |-> OT_ERROR_FAILED, socket |-> socket]

otUdpConnect(socket, sockaddr, ok) ==
    IF ok THEN [error |-> OT_ERROR_NONE, socket |-> [socket EXCEPT !.peerName = sockaddr]]
    ELSE [error |-> OT_ERROR_FAILED, socket |-> socket]

\* the transport accepts a message that has a destination, the explicit one or
\* the connected peer
otUdpSend(socket, messageInfo, ok) ==
    IF ok /\ (messageInfo # kUnspecifiedEndpoint \/ socket.peerName # kUnspecifiedEndpoint)
    THEN OT_ERROR_NONE
    ELSE OT_ERROR_FAILED

(***************************************************************************)
(* The handlers.  A handler maps the session, its arguments and the        *)
(* outcomes of the collaborators (env) to an outcome: the error returned,  *)
(* the session left behind and what the call did on the way.               *)
(***************************************************************************)
kNoMessage == [allocated |-> FALSE, bytes |-> <<>>, handed |-> 0, freed |-> 0]

kNothingSent ==
    [called |-> FALSE, bytes |-> <<>>, info |-> kUnspecifiedEndpoint, linkSecurity |-> FALSE]

\* a handler that has done nothing yet
Outcome0(handler) ==
    [error |-> OT_ERROR_NONE,
     socket |-> mSocket,
     linkSecurity |-> mLinkSecurityEnabled,
     out |-> <<>>,
     calls |-> <<>>,
     handlers |-> <<handler>>,
     read |-> {},
     message |-> kNoMessage,
     sent |-> kNothingSent,
     regs |-> registrations]

\* UdpExample::ProcessHelp
ProcessHelp(aArgs, env) ==
    [Outcome0("ProcessHelp") EXCEPT
        !.out = [i \in 1..Len(sCommands) |-> [kind |-> "line", text |-> sCommands[i].mName]]]

\* the mutant: a bind that accepts two or more arguments
ProcessBind_AtLeastTwo(aArgs, env) ==
    LET base == Outcome0("ProcessBind")
        a == ParseAsIp6Address(aArgs[1])
        p == ParseAsUint16(aArgs[2])
        r == otUdpBind(mSocket, [addr |-> a.value, port |-> p.value], env.transportOk)
    IN  IF Len(aArgs) < 2 THEN [base EXCEPT !.error = OT_ERROR_INVALID_ARGS]
        ELSE IF a.error # OT_ERROR_NONE
        THEN [base EXCEPT !.error = a.error, !.calls = <<"ParseAsIp6Address">>, !.read = {0}]
        ELSE IF p.error # OT_ERROR_NONE
        THEN [base EXCEPT !.error = p.error,
                          !.calls = <<"ParseAsIp6Address", "ParseAsUint16">>,
                          !.read = {0, 1}]
        ELSE [base EXCEPT !.error = r.error,
                          !.socket = r.socket,
                          !.calls = <<"ParseAsIp6Address", "ParseAsUint16", "otUdpBind">>,
                          !.read = {0, 1}]

\* UdpExample::ProcessBind
ProcessBind(aArgs, env) ==
    LET base == Outcome0("ProcessBind")
        a == ParseAsIp6Address(aArgs[1])
        p == ParseAsUint16(aArgs[2])
        r == otUdpBind(mSocket, [addr |-> a.value, port |-> p.value], env.transportOk)
    IN  IF Len(aArgs) # 2 THEN [base EXCEPT !.error = OT_ERROR_INVALID_ARGS]
        ELSE IF a.error # OT_ERROR_NONE
        THEN [base EXCEPT !.error = a.error, !.calls = <<"ParseAsIp6Address">>, !.read = {0}]
        ELSE IF p.error # OT_ERROR_NONE
        THEN [base EXCEPT !.error = p.error,
                          !.calls = <<"ParseAsIp6Address", "ParseAsUint16">>,
                          !.read = {0, 1}]
        ELSE [base EXCEPT !.error = r.error,
                          !.socket = r.socket,
                          !.calls = <<"ParseAsIp6Address", "ParseAsUint16", "otUdpBind">>,
                          !.read = {0, 1}]

\* the mutant: a connect that goes on to the transport whatever the port parse said
ProcessConnect_PortUnchecked(aArgs, env) ==
    LET base == Outcome0("ProcessConnect")
        a == ParseAsIp6Address(aArgs[1])
        p == ParseAsUint16(aArgs[2])
        r == otUdpConnect(mSocket, [addr |-> a.value, port |-> p.value], env.transportOk)
    IN  IF Len(aArgs) # 2 THEN [base EXCEPT !.error = OT_ERROR_INVALID_ARGS]
        ELSE IF a.error # OT_ERROR_NONE
        THEN [base EXCEPT !.error = a.error, !.calls = <<"ParseAsIp6Address">>, !.read = {0}]
        ELSE [base EXCEPT !.error = r.error,
                          !.socket = r.socket,
                          !.calls = <<"ParseAsIp6Address", "ParseAsUint16", "otUdpConnect">>,
                          !.read = {0, 1}]

\* UdpExample::ProcessConnect
ProcessConnect(aArgs, env) ==
    LET base == Outcome0("ProcessConnect")
        a == ParseAsIp6Address(aArgs[1])
        p == ParseAsUint16(aArgs[2])
        r == otUdpConnect(mSocket, [addr |-> a.value, port |-> p.value], env.transportOk)
    IN  IF Len(aArgs) # 2 THEN [base EXCEPT !.error = OT_ERROR_INVALID_ARGS]
        ELSE IF a.error # OT_ERROR_NONE
        THEN [base EXCEPT !.error = a.error, !.calls = <<"ParseAsIp6Address">>, !.read = {0}]
        ELSE IF p.error # OT_ERROR_NONE
        THEN [base EXCEPT !.error = p.error,
                          !.calls = <<"ParseAsIp6Address", "ParseAsUint16">>,
                          !.read = {0, 1}]
        ELSE [base EXCEPT !.error = r.error,
                          !.socket = r.socket,
                          !.calls = <<"ParseAsIp6Address", "ParseAsUint16", "otUdpConnect">>,
                          !.read = {0, 1}]

\* UdpExample::ProcessClose: the arguments are not looked at
ProcessClose(aArgs, env) ==
    LET r == otUdpClose(mSocket)
    IN  [Outcome0("ProcessClose") EXCEPT
            !.error = r.error, !.socket = r.socket, !.calls = <<"otUdpClose">>, !.regs = 0]

\* the mutant: an open that does not ask whether the socket is open
ProcessOpen_Unguarded(aArgs, env) ==
    LET r == otUdpOpen(mSocket)
    IN  [Outcome0("ProcessOpen") EXCEPT
            !.error = r.error,
            !.socket = r.socket,
            !.calls = <<"otUdpIsOpen", "otUdpOpen">>,
            !.regs = Min(registrations + 1, MaxRegistrations)]

\* UdpExample::ProcessOpen: the arguments are not looked at
ProcessOpen(aArgs, env) ==
    LET base == Outcome0("ProcessOpen")
        r == otUdpOpen(mSocket)
    IN  IF otUdpIsOpen(mSocket)
        THEN [base EXCEPT !.error = OT_ERROR_ALREADY, !.calls = <<"otUdpIsOpen">>]
        ELSE [base EXCEPT !.error = r.error,
                          !.socket = r.socket,
                          !.calls = <<"otUdpIsOpen", "otUdpOpen">>,
                          !.regs = Min(registrations + 1, MaxRegistrations)]

\* UdpExample::ProcessLinkSecurity: arguments after the first are not looked at
ProcessLinkSecurity(aArgs, env) ==
    LET base == Outcome0("ProcessLinkSecurity")
        r == ParseEnableOrDisable(aArgs[1], mLinkSecurityEnabled)
    IN  IF Len(aArgs) = 0
        THEN [base EXCEPT
                !.out = <<[kind |-> "line", text |-> EnabledDisabledStatus(mLinkSecurityEnabled)]>>,
                !.calls = <<"OutputEnabledDisabledStatus">>]
        ELSE [base EXCEPT !.error = r.error,
                          !.linkSecurity = r.value,
                          !.calls = <<"ParseEnableOrDisable">>,
                          !.read = {0}]

(***************************************************************************)
(* The payload builders.  failAt is the index, among the otMessageAppend   *)
(* calls of one send, of the call that runs out of buffers (0: none does); *)
(* appends counts the calls made so far.                                   *)
(***************************************************************************)
kBufferSize == 50

\* the mutant: the switch without its case 'Z'
NextCharacter_NoCaseZ(character) ==
    IF character = Ord("9") THEN Ord("A")
    ELSE IF character = Ord("z") THEN Ord("0")
    ELSE (character + 1) % 256

\* the switch of PrepareAutoGeneratedPayload: the character after this one
NextCharacter(character) ==
    IF character = Ord("9") THEN Ord("A")
    ELSE IF character = Ord("Z") THEN Ord("a")
    ELSE IF character = Ord("z") THEN Ord("0")
    ELSE (character + 1) % 256

\* the body of the loop of PrepareAutoGeneratedPayload, run once on the loop's
\* state; it leaves a loop that has ended as it is
AutoStep(s, failAt) ==
    IF s.error # OT_ERROR_NONE \/ s.aPayloadLength = 0 THEN s
    ELSE IF s.appends + 1 = failAt
    THEN [s EXCEPT !.error = OT_ERROR_NO_BUFS, !.appends = @ + 1]
    ELSE [s EXCEPT !.bytes = Append(@, s.character),
                   !.character = NextCharacter(@),
                   !.aPayloadLength = @ - 1,
                   !.appends = @ + 1]

\* the loop body run n times, by halves
RECURSIVE AutoIterate(_, _, _)
AutoIterate(s, n, failAt) ==
    IF n = 0 \/ s.error # OT_ERROR_NONE \/ s.aPayloadLength = 0 THEN s
    ELSE IF n = 1 THEN AutoStep(s, failAt)
    ELSE AutoIterate(AutoIterate(s, n \div 2, failAt), n - (n \div 2), failAt)

\* what PrepareAutoGeneratedPayload returns when its loop has ended in state r
AutoResult(r, appends) ==
    [error |-> r.error,
     bytes |-> r.bytes,
     appends |-> r.appends,
     calls |-> [i \in 1..(r.appends - appends) |-> "otMessageAppend"]]

\* UdpExample::PrepareAutoGeneratedPayload: the loop runs aPayloadLength times at most
PrepareAutoGeneratedPayload(bytes, aPayloadLength, appends, failAt) ==
    AutoResult(AutoIterate([error |-> OT_ERROR_NONE, bytes |-> bytes, character |-> Ord("0"),
                            aPayloadLength |-> aPayloadLength, appends |-> appends],
                           aPayloadLength, failAt),
               appends)

\* the mutant: a segment step that ends the loop on the first segment, pending or not
HexSegmentDone_Always(error) == TRUE

\* done = (error == OT_ERROR_NONE)
HexSegmentDone(error) == error = OT_ERROR_NONE

\* the loop of PrepareHexStringPaylod: HexLoop is one pass from the call of the
\* segment parser, HexSegment the rest of the pass, seg being what the parser gave
RECURSIVE HexLoop(_, _, _, _, _)
HexSegment(bytes, appends, failAt, log, seg) ==
    IF seg.error # OT_ERROR_NONE /\ seg.error # OT_ERROR_PENDING
    THEN [error |-> seg.error, bytes |-> bytes, appends |-> appends, calls |-> log]
    ELSE IF appends + 1 = failAt
    THEN [error |-> OT_ERROR_NO_BUFS, bytes |-> bytes, appends |-> appends + 1,
          calls |-> Append(log, "otMessageAppend")]
    ELSE IF HexSegmentDone(seg.error)
    THEN [error |-> OT_ERROR_NONE, bytes |-> bytes \o seg.buf, appends |-> appends + 1,
          calls |-> Append(log, "otMessageAppend")]
    ELSE HexLoop(bytes \o seg.buf, seg.rest, appends + 1, failAt,
                 Append(log, "otMessageAppend"))

HexLoop(bytes, aHexString, appends, failAt, log) ==
    HexSegment(bytes, appends, failAt, Append(log, "ParseAsHexStringSegment"),
               ParseAsHexStringSegment(aHexString, kBufferSize))

\* UdpExample::PrepareHexStringPaylod
PrepareHexStringPaylod(bytes, aHexString, appends, failAt) ==
    HexLoop(bytes, aHexString, appends, failAt, <<>>)

(***************************************************************************)
(* The send handler.                                                       *)
(***************************************************************************)
\* the mutant: a destination is parsed only from a four-token send
SendHasDestination_OnlyFour(aArgsLength) == aArgsLength > 3

\* if (aArgsLength > 2)
SendHasDestination(aArgsLength) == aArgsLength > 2

\* ProcessSend, the destination: messageInfo and argIndex after it
SendDestination(aArgs) ==
    LET a == ParseAsIp6Address(aArgs[1])
        p == ParseAsUint16(aArgs[2])
    IN  IF ~SendHasDestination(Len(aArgs))
        THEN [error |-> OT_ERROR_NONE, info |-> kUnspecifiedEndpoint, argIndex |-> 0,
              calls |-> <<>>, read |-> {}]
        ELSE IF a.error # OT_ERROR_NONE
        THEN [error |-> a.error, info |-> kUnspecifiedEndpoint, argIndex |-> 1,
              calls |-> <<"ParseAsIp6Address">>, read |-> {0}]
        ELSE IF p.error # OT_ERROR_NONE
        THEN [error |-> p.error, info |-> [addr |-> a.value, port |-> 0], argIndex |-> 2,
              calls |-> <<"ParseAsIp6Address", "ParseAsUint16">>, read |-> {0, 1}]
        ELSE [error |-> OT_ERROR_NONE, info |-> [addr |-> a.value, port |-> p.value],
              argIndex |-> 2,
              calls |-> <<"ParseAsIp6Address", "ParseAsUint16">>, read |-> {0, 1}]

\* the mutant: a text branch that takes the last token as the payload
TextIndex_Last(aArgs, argIndex) == Len(aArgs) - 1

\* ProcessSend, the text branch: the index of the payload token
TextIndex(aArgs, argIndex) ==
    IF aArgs[argIndex + 1] = kMarkerT THEN argIndex + 1 ELSE argIndex

\* ProcessSend, a marker without a value: VerifyOrExit(argIndex < aArgsLength)
MissingValue(argIndex) ==
    [error |-> OT_ERROR_INVALID_ARGS, bytes |-> <<>>, calls |-> <<>>,
     read |-> {argIndex}]

\* ProcessSend, the branch of -s once the length token is parsed
AutoPayload(length, argIndex, built) ==
    IF length.error # OT_ERROR_NONE
    THEN [error |-> length.error, bytes |-> <<>>, calls |-> <<"ParseAsUint16">>,
          read |-> {argIndex, argIndex + 1}]
    ELSE [error |-> built.error, bytes |-> built.bytes,
          calls |-> <<"ParseAsUint16">> \o built.calls,
          read |-> {argIndex, argIndex + 1}]

\* ProcessSend, the branch of -x once the builder has run
HexPayload(argIndex, built) ==
    [error |-> built.error, bytes |-> built.bytes, calls |-> built.calls,
     read |-> {argIndex, argIndex + 1}]

\* ProcessSend, the text branch once the index of the payload token is known
TextPayload(aArgs, argIndex, textIndex, failAt) ==
    IF ~(textIndex < Len(aArgs)) THEN MissingValue(argIndex)
    ELSE [error |-> IF failAt = 1 THEN OT_ERROR_NO_BUFS ELSE OT_ERROR_NONE,
          bytes |-> IF failAt = 1 THEN <<>> ELSE Bytes(aArgs[textIndex + 1]),
          calls |-> <<"otMessageAppend">>,
          read |-> {argIndex, textIndex}]

\* ProcessSend, the payload: the bytes appended to the fresh message
SendPayload(aArgs, argIndex, failAt) ==
    IF aArgs[argIndex + 1] = kMarkerS
    THEN IF ~(argIndex + 1 < Len(aArgs)) THEN MissingValue(argIndex)
         ELSE AutoPayload(ParseAsUint16(aArgs[argIndex + 2]), argIndex,
                          PrepareAutoGeneratedPayload(
                              <<>>, ParseAsUint16(aArgs[argIndex + 2]).value, 0, failAt))
    ELSE IF aArgs[argIndex + 1] = kMarkerX
    THEN IF ~(argIndex + 1 < Len(aArgs)) THEN MissingValue(argIndex)
         ELSE HexPayload(argIndex,
                         PrepareHexStringPaylod(<<>>, aArgs[argIndex + 2], 0, failAt))
    ELSE TextPayload(aArgs, argIndex, TextIndex(aArgs, argIndex), failAt)

\* the mutant: an exit block that frees the message whenever one was allocated
SendExit_FreesAlways(o, held) ==
    IF o.message.allocated
    THEN [o EXCEPT !.message.freed = @ + 1, !.calls = Append(@, "otMessageFree")]
    ELSE o

\* ProcessSend, the exit block: frees the message the handler still holds
SendExit(o, held) ==
    IF held
    THEN [o EXCEPT !.message.freed = @ + 1, !.calls = Append(@, "otMessageFree")]
    ELSE o

\* ProcessSend, from otUdpSend on: error is what the transport returned
SendTransport(o, dest, error) ==
    IF error # OT_ERROR_NONE
    THEN SendExit([o EXCEPT !.error = error,
                            !.calls = Append(@, "otUdpSend"),
                            !.sent = [called |-> TRUE, bytes |-> o.message.bytes,
                                      info |-> dest.info,
                                      linkSecurity |-> mLinkSecurityEnabled]], TRUE)
    ELSE SendExit([o EXCEPT !.message.handed = @ + 1,
                            !.calls = Append(@, "otUdpSend"),
                            !.sent = [called |-> TRUE, bytes |-> o.message.bytes,
                                      info |-> dest.info,
                                      linkSecurity |-> mLinkSecurityEnabled]], FALSE)

\* ProcessSend, once the payload is built into the message
SendBuilt(o, dest, payload, env) ==
    IF payload.error # OT_ERROR_NONE
    THEN SendExit([o EXCEPT !.error = payload.error,
                            !.calls = @ \o payload.calls,
                            !.read = @ \cup payload.read,
                            !.message.bytes = payload.bytes], TRUE)
    ELSE SendTransport([o EXCEPT !.calls = @ \o payload.calls,
                                 !.read = @ \cup payload.read,
                                 !.message.bytes = payload.bytes],
                       dest, otUdpSend(mSocket, dest.info, env.transportOk))

\* ProcessSend, from otUdpNewMessage on: dest is the destination resolved
SendMessage(o, aArgs, env, dest) ==
    IF dest.error # OT_ERROR_NONE
    THEN SendExit([o EXCEPT !.error = dest.error, !.calls = dest.calls, !.read = dest.read],
                  FALSE)
    ELSE IF ~env.allocOk
    THEN SendExit([o EXCEPT !.error = OT_ERROR_NO_BUFS,
                            !.calls = Append(dest.calls, "otUdpNewMessage"),
                            !.read = dest.read], FALSE)
    ELSE SendBuilt([o EXCEPT !.calls = Append(dest.calls, "otUdpNewMessage"),
                             !.read = dest.read,
                             !.message.allocated = TRUE],
                   dest, SendPayload(aArgs, dest.argIndex, env.failAt), env)

\* UdpExample::ProcessSend
ProcessSend(aArgs, env) ==
    IF ~(Len(aArgs) >= 1 /\ Len(aArgs) <= 4)
    THEN SendExit([Outcome0("ProcessSend") EXCEPT !.error = OT_ERROR_INVALID_ARGS], FALSE)
    ELSE SendMessage(Outcome0("ProcessSend"), aArgs, env, SendDestination(aArgs))

\* the mutant: an empty argument list reports the help handler's result
EmptyArgsError_FromHelp(helpError) == helpError

\* Process, the empty argument list: the help handler's result is ignored and
\* error keeps its initial value
EmptyArgsError(helpError) == OT_ERROR_INVALID_ARGS

\* the handler a table entry names, applied
Invoke(mHandler, aArgs, env) ==
    CASE mHandler = "ProcessHelp" -> ProcessHelp(aArgs, env)
      [] mHandler = "ProcessBind" -> ProcessBind(aArgs, env)
      [] mHandler = "ProcessConnect" -> ProcessConnect(aArgs, env)
      [] mHandler = "ProcessClose" -> ProcessClose(aArgs, env)
      [] mHandler = "ProcessOpen" -> ProcessOpen(aArgs, env)
      [] mHandler = "ProcessSend" -> ProcessSend(aArgs, env)
      [] mHandler = "ProcessLinkSecurity" -> ProcessLinkSecurity(aArgs, env)

\* UdpExample::Process
Process(aArgs, env) ==
    LET help == ProcessHelp(<<>>, env)
        command == Find(aArgs[1], sCommands)
    IN  IF Len(aArgs) = 0 THEN [help EXCEPT !.error = EmptyArgsError(help.error)]
        ELSE IF command = 0
        THEN [Outcome0("none") EXCEPT !.error = OT_ERROR_INVALID_COMMAND, !.handlers = <<>>]
        ELSE Invoke(sCommands[command].mHandler, Tail(aArgs), env)

(***************************************************************************)
(* The receive notifier.                                                   *)
(***************************************************************************)
kReceiveBufferSize == 1500

\* UdpExample::HandleUdpReceive: the four output calls, in order
ReceiveFragments(aMessage) ==
    LET length == Min(Len(aMessage.payload), kReceiveBufferSize - 1)
    IN  <<[kind |-> "bytes from", value |-> Len(aMessage.payload)],
          [kind |-> "address", value |-> aMessage.peer.addr],
          [kind |-> "port", value |-> aMessage.peer.port],
          [kind |-> "line", text |-> SubSeq(aMessage.payload, 1, length)]>>

(***************************************************************************)
(* The inputs.                                                             *)
(***************************************************************************)
kOkEnv == [allocOk |-> TRUE, failAt |-> 0, transportOk |-> TRUE]

\* the outcomes of the collaborators during a send: all succeed, or one fails
SendEnvs ==
    {kOkEnv, [kOkEnv EXCEPT !.allocOk = FALSE], [kOkEnv EXCEPT !.transportOk = FALSE]}
        \cup {[kOkEnv EXCEPT !.failAt = k] : k \in 1..MaxFailAt}

\* byte i of the long hex strings
PatternByte(i) == (i * 7 + 3) % 256

\* hex strings of one byte less than, exactly, and one byte more than a whole
\* number of segments
LongHexStrings ==
    {HexEncode([i \in 1..(k * kBufferSize + d) |-> PatternByte(i)]) :
        k \in 1..MaxExtraSegments, d \in {-1, 0, 1}}

AddressTokens == {kLoopback, kNotAnIp}
BindAddressTokens == {kLoopback, kMulticast, kNotAnIp}
PortTokens == {kPort, kPortTooBig, kPortNotNumeric}
PayloadFirstTokens == {kMarkerS, kMarkerX, kMarkerT, kHello}
ValueTokens == {kHello, kHexHello, kHexMixed, kHexOdd, kHexBad, ToDec(10), kPortTooBig}
TypedValueTokens == {kHello, kHexHello, kHexBad, ToDec(10)}

\* the argument lists given to send
SendArgs ==
    {<<>>, <<kLoopback, kPort, kMarkerT, kHello, kHello>>}
        \cup {<<t>> : t \in PayloadFirstTokens \cup {kLoopback}}
        \cup {<<kMarkerS, ToDec(n)>> : n \in 0..MaxAutoLength}
        \cup {<<t, v>> : t \in PayloadFirstTokens, v \in ValueTokens \cup LongHexStrings}
        \cup {<<a, p, t>> : a \in AddressTokens, p \in PortTokens, t \in PayloadFirstTokens}
        \cup {<<a, p, t, v>> : a \in AddressTokens, p \in PortTokens,
                               t \in PayloadFirstTokens,
                               v \in TypedValueTokens \cup {kMulticast}}
        \cup {<<kMulticast, kPort, kMarkerX, v>> : v \in LongHexStrings}

EndpointArgs ==
    {<<>>, <<kLoopback>>, <<kLoopback, kPort, kHello>>}
        \cup {<<a, p>> : a \in BindAddressTokens, p \in PortTokens}

IgnoredArgs == {<<>>, <<kHello>>, <<kHello, kHello>>}

LinkSecurityArgs ==
    {<<>>, <<kEnable>>, <<kDisable>>, <<kHello>>, <<kEnable, kHello>>, <<kDisable, kEnable>>}

Datagrams ==
    {[payload |-> Bytes(kHi), peer |-> [addr |-> Ip6Table[1].addr, port |-> 1234]],
     [payload |-> Bytes(kHello), peer |-> [addr |-> Ip6Table[2].addr, port |-> 7]]}

(***************************************************************************)
(* The state machine: one command, or one notification, runs to completion *)
(* at a time.                                                              *)
(***************************************************************************)
kSession ==
    [socket |-> mSocket, linkSecurity |-> mLinkSecurityEnabled, registrations |-> registrations]

\* UdpExample::UdpExample
Init ==
    /\ mSocket = kClosedSocket
    /\ mLinkSecurityEnabled = TRUE
    /\ invoked = "none"
    /\ lastArgs = <<>>
    /\ lastEnv = kOkEnv
    /\ pre = [socket |-> kClosedSocket, linkSecurity |-> TRUE, registrations |-> 0]
    /\ result = OT_ERROR_NONE
    /\ output = <<>>
    /\ calls = <<>>
    /\ handlers = <<>>
    /\ argsRead = {}
    /\ message = kNoMessage
    /\ sent = kNothingSent
    /\ registrations = 0
    /\ stream = <<>>
    /\ cmdPc = 0
    /\ rxPc = 0
    /\ rxMsg = [payload |-> <<>>, peer |-> kUnspecifiedEndpoint]
    /\ rxCount = 0
    /\ cmdCount = 0

\* one call of Process, from its arguments to its return
RunProcess(aArgs, env) ==
    \E o \in {Process(aArgs, env)} :
        /\ mSocket' = o.socket
        /\ mLinkSecurityEnabled' = o.linkSecurity
        /\ invoked' = "process"
        /\ lastArgs' = aArgs
        /\ lastEnv' = env
        /\ pre' = kSession
        /\ result' = o.error
        /\ output' = o.out
        /\ calls' = o.calls
        /\ handlers' = o.handlers
        /\ argsRead' = o.read
        /\ message' = o.message
        /\ sent' = o.sent
        /\ registrations' = o.regs
        /\ UNCHANGED <<stream, cmdPc, rxPc, rxMsg, rxCount, cmdCount>>

Empty == invoked = "none" /\ RunProcess(<<>>, kOkEnv)

Unknown == invoked = "none" /\ \E aArgs \in {<<kUnknown>>, <<<<"H", "e", "l", "p">>>>, <<kUnknown, kHello>>} :
    RunProcess(aArgs, kOkEnv)

Help == invoked = "none" /\ \E aArgs \in IgnoredArgs : RunProcess(<<kHelp>> \o aArgs, kOkEnv)

Bind == invoked = "none" /\ \E aArgs \in EndpointArgs, ok \in BOOLEAN :
    RunProcess(<<kBind>> \o aArgs, [kOkEnv EXCEPT !.transportOk = ok])

Connect == invoked = "none" /\ \E aArgs \in EndpointArgs, ok \in BOOLEAN :
    RunProcess(<<kConnect>> \o aArgs, [kOkEnv EXCEPT !.transportOk = ok])

Close == invoked = "none" /\ \E aArgs \in IgnoredArgs : RunProcess(<<kClose>> \o aArgs, kOkEnv)

Open == invoked = "none" /\ \E aArgs \in IgnoredArgs : RunProcess(<<kOpen>> \o aArgs, kOkEnv)

LinkSecurity == invoked = "none" /\ \E aArgs \in LinkSecurityArgs : RunProcess(<<kLinkSecurity>> \o aArgs, kOkEnv)

Send == invoked = "none" /\ \E aArgs \in SendArgs, env \in SendEnvs :
    RunProcess(<<kSend>> \o aArgs, env)

\* the transport delivers a datagram to the callback of an open socket
Receive == \E aMessage \in Datagrams :
    /\ invoked = "none"
    /\ mSocket.open
    /\ invoked' = "receive"
    /\ output' = ReceiveFragments(aMessage)
    /\ lastArgs' = <<>>
    /\ lastEnv' = kOkEnv
    /\ pre' = kSession
    /\ result' = OT_ERROR_NONE
    /\ calls' = <<"otMessageRead">>
    /\ handlers' = <<"HandleUdpReceive">>
    /\ argsRead' = {}
    /\ message' = kNoMessage
    /\ sent' = kNothingSent
    /\ UNCHANGED <<mSocket, mLinkSecurityEnabled, registrations,
                   stream, cmdPc, rxPc, rxMsg, rxCount, cmdCount>>

\* the caller has taken the result and the output; the next command line or
\* datagram is awaited
Prompt ==
    /\ invoked # "none"
    /\ invoked' = "none"
    /\ lastArgs' = <<>>
    /\ lastEnv' = kOkEnv
    /\ pre' = kSession
    /\ result' = OT_ERROR_NONE
    /\ output' = <<>>
    /\ calls' = <<>>
    /\ handlers' = <<>>
    /\ argsRead' = {}
    /\ message' = kNoMessage
    /\ sent' = kNothingSent
    /\ UNCHANGED <<mSocket, mLinkSecurityEnabled, registrations,
                   stream, cmdPc, rxPc, rxMsg, rxCount, cmdCount>>

Next ==
    \/ Prompt
    \/ Empty
    \/ Unknown
    \/ Help
    \/ Bind
    \/ Connect
    \/ Close
    \/ Open
    \/ LinkSecurity
    \/ Send
    \/ Receive

Spec == Init /\ [][Next]_vars

(***************************************************************************)
(* Preemptive delivery: the transport delivers a notification from a       *)
(* context of its own, so the notifier's output calls and those of a       *)
(* command handler interleave call by call.  Nothing in the handlers       *)
(* serialises the output stream.                                           *)
(***************************************************************************)
\* the shell starts help; its loop is about to print the first name
AsyncHelpBegin ==
    /\ cmdPc = 0
    /\ cmdCount < MaxAsyncCmds
    /\ cmdPc' = 1
    /\ cmdCount' = cmdCount + 1
    /\ UNCHANGED <<mSocket, mLinkSecurityEnabled, invoked, lastArgs, lastEnv, pre, result,
                   output, calls, handlers, argsRead, message, sent, registrations,
                   stream, rxPc, rxMsg, rxCount>>

\* ProcessHelp: one pass of the loop, one OutputLine
AsyncHelpOutput ==
    /\ cmdPc > 0
    /\ stream' = Append(stream, [src |-> "command", id |-> cmdCount,
                                 frag |-> ProcessHelp(<<>>, kOkEnv).out[cmdPc]])
    /\ cmdPc' = IF cmdPc = Len(sCommands) THEN 0 ELSE cmdPc + 1
    /\ UNCHANGED <<mSocket, mLinkSecurityEnabled, invoked, lastArgs, lastEnv, pre, result,
                   output, calls, handlers, argsRead, message, sent, registrations,
                   rxPc, rxMsg, rxCount, cmdCount>>

\* ProcessLinkSecurity without arguments: its one output call
AsyncLinkSecurityStatus ==
    /\ cmdPc = 0
    /\ cmdCount < MaxAsyncCmds
    /\ stream' = Append(stream, [src |-> "command", id |-> cmdCount + 1,
                                 frag |-> ProcessLinkSecurity(<<>>, kOkEnv).out[1]])
    /\ cmdCount' = cmdCount + 1
    /\ UNCHANGED <<mSocket, mLinkSecurityEnabled, invoked, lastArgs, lastEnv, pre, result,
                   output, calls, handlers, argsRead, message, sent, registrations,
                   cmdPc, rxPc, rxMsg, rxCount>>

\* ProcessOpen and ProcessClose write nothing: they run in one step
AsyncOpenClose == \E name \in {kOpen, kClose} : \E o \in {Process(<<name>>, kOkEnv)} :
    /\ cmdPc = 0
    /\ rxPc = 0
    /\ mSocket' = o.socket
    /\ registrations' = o.regs
    /\ UNCHANGED <<mLinkSecurityEnabled, invoked, lastArgs, lastEnv, pre, result,
                   output, calls, handlers, argsRead, message, sent,
                   stream, cmdPc, rxPc, rxMsg, rxCount, cmdCount>>

\* the transport calls HandleUdpReceive with a datagram
AsyncReceiveBegin == \E aMessage \in Datagrams :
    /\ mSocket.open
    /\ rxPc = 0
    /\ rxCount < MaxRx
    /\ rxMsg' = aMessage
    /\ rxPc' = 1
    /\ rxCount' = rxCount + 1
    /\ UNCHANGED <<mSocket, mLinkSecurityEnabled, invoked, lastArgs, lastEnv, pre, result,
                   output, calls, handlers, argsRead, message, sent, registrations,
                   stream, cmdPc, cmdCount>>

\* HandleUdpReceive: one of its four output calls
AsyncReceiveOutput ==
    /\ rxPc > 0
    /\ stream' = Append(stream, [src |-> "receive", id |-> rxCount,
                                 frag |-> ReceiveFragments(rxMsg)[rxPc]])
    /\ rxPc' = IF rxPc = Len(ReceiveFragments(rxMsg)) THEN 0 ELSE rxPc + 1
    /\ UNCHANGED <<mSocket, mLinkSecurityEnabled, invoked, lastArgs, lastEnv, pre, result,
                   output, calls, handlers, argsRead, message, sent, registrations,
                   cmdPc, rxMsg, rxCount, cmdCount>>

NextAsync ==
    \/ AsyncHelpBegin
    \/ AsyncHelpOutput
    \/ AsyncLinkSecurityStatus
    \/ AsyncOpenClose
    \/ AsyncReceiveBegin
    \/ AsyncReceiveOutput

SpecAsync == Init /\ [][NextAsync]_vars

(***************************************************************************)
(* The claims.                                                             *)
(***************************************************************************)
\* the last step was a call of Process whose first token is name
Ran(name) == invoked = "process" /\ Len(lastArgs) >= 1 /\ lastArgs[1] = name

\* the arguments the handler was given
HandlerArgs == Tail(lastArgs)

SessionUnchanged ==
    /\ mSocket = pre.socket
    /\ mLinkSecurityEnabled = pre.linkSecurity
    /\ registrations = pre.registrations

Called(name) == \E i \in 1..Len(calls) : calls[i] = name

\* no otMessageAppend call of the last send ran out of buffers
NoAppendFailed ==
    \/ lastEnv.failAt = 0
    \/ lastEnv.failAt > Cardinality({i \in 1..Len(calls) : calls[i] = "otMessageAppend"})

HelpLines == [i \in 1..Len(sCommands) |-> [kind |-> "line", text |-> sCommands[i].mName]]

Markers == {kMarkerS, kMarkerX, kMarkerT}

\* the first two tokens of the last send parse as an address and a port
DestinationValid ==
    /\ ParseAsIp6Address(HandlerArgs[1]).error = OT_ERROR_NONE
    /\ ParseAsUint16(HandlerArgs[2]).error = OT_ERROR_NONE

\* C1: a send that obtained a message either hands it to the transport exactly
\* once (and then returns success and does not free it) or frees it exactly once
\* (and then returns the failure); a send that ends before it obtained a message
\* hands nothing over and frees nothing.
C1_TransferOrFreeOnce ==
    Ran(kSend) =>
        /\ message.allocated =>
            \/ message.handed = 1 /\ message.freed = 0 /\ result = OT_ERROR_NONE
            \/ message.handed = 0 /\ message.freed = 1 /\ result # OT_ERROR_NONE
        /\ ~message.allocated =>
            message.handed = 0 /\ message.freed = 0 /\ result # OT_ERROR_NONE
        /\ message.allocated <=> (Called("otUdpNewMessage") /\ lastEnv.allocOk)
        /\ message.handed = 1 => Called("otUdpSend")
        /\ message.freed = 1 <=> Called("otMessageFree")

\* a send whose message the transport refused, and which freed it
C1_Witness ==
    Ran(kSend) /\ sent.called /\ result = OT_ERROR_FAILED /\ message.freed = 1

\* C2 as stated: Process with no arguments prints the command names in table
\* order, runs no other handler and returns success, as the help command does.
C2_EmptyArgsSucceed ==
    (invoked = "process" /\ lastArgs = <<>>) =>
        /\ output = HelpLines
        /\ handlers = <<"ProcessHelp">>
        /\ result = OT_ERROR_NONE

\* C2 amended: Process with no arguments prints the command names in table order
\* and runs no other handler, but returns InvalidArguments; the help command
\* prints the same lines and returns success.
C2_EmptyArgsPrintHelpAndFail ==
    /\ (invoked = "process" /\ lastArgs = <<>>) =>
        /\ output = HelpLines
        /\ handlers = <<"ProcessHelp">>
        /\ result = OT_ERROR_INVALID_ARGS
        /\ SessionUnchanged
    /\ Ran(kHelp) =>
        /\ output = HelpLines
        /\ handlers = <<"ProcessHelp">>
        /\ result = OT_ERROR_NONE

C2_Witness ==
    invoked = "process" /\ lastArgs = <<>> /\ Len(output) = Len(sCommands)

\* a handler that rejected its argument count before doing anything
RejectedAtOnce ==
    /\ result = OT_ERROR_INVALID_ARGS
    /\ calls = <<>>
    /\ argsRead = {}
    /\ SessionUnchanged

\* C3 as stated: every session handler called with a count it does not accept
\* returns InvalidArguments before any token is parsed, calls no collaborator
\* and leaves the session as it was.
C3_EveryHandlerChecksCount ==
    /\ (Ran(kOpen) \/ Ran(kClose)) /\ Len(HandlerArgs) >= 1 => RejectedAtOnce
    /\ Ran(kLinkSecurity) /\ Len(HandlerArgs) >= 2 => RejectedAtOnce
    /\ (Ran(kBind) \/ Ran(kConnect)) /\ Len(HandlerArgs) # 2 => RejectedAtOnce
    /\ Ran(kSend) /\ (Len(HandlerArgs) = 0 \/ Len(HandlerArgs) > 4) => RejectedAtOnce

\* C3 amended: bind and connect with a count other than 2, and send with 0 or
\* more than 4 arguments, return InvalidArguments before any token is parsed,
\* with no collaborator called and the session unchanged.  open and close do not
\* look at their arguments: with any number of them open opens a closed socket
\* (or reports Already) and close closes it.  linksecurity looks at its first
\* argument only: further arguments change nothing.
C3_CountCheckedByBindConnectSend ==
    /\ (Ran(kBind) \/ Ran(kConnect)) /\ Len(HandlerArgs) # 2 => RejectedAtOnce
    /\ Ran(kSend) /\ (Len(HandlerArgs) = 0 \/ Len(HandlerArgs) > 4) => RejectedAtOnce
    /\ Ran(kOpen) =>
        /\ argsRead = {}
        /\ result = IF pre.socket.open THEN OT_ERROR_ALREADY ELSE OT_ERROR_NONE
        /\ mSocket.open
    /\ Ran(kClose) =>
        /\ argsRead = {}
        /\ result = OT_ERROR_NONE
        /\ calls = <<"otUdpClose">>
        /\ ~mSocket.open
    /\ Ran(kLinkSecurity) /\ Len(HandlerArgs) >= 1 =>
        /\ argsRead = {0}
        /\ calls = <<"ParseEnableOrDisable">>
        /\ result = ParseEnableOrDisable(HandlerArgs[1], pre.linkSecurity).error
        /\ mLinkSecurityEnabled = ParseEnableOrDisable(HandlerArgs[1], pre.linkSecurity).value

\* a bind with three arguments, rejected
C3_Witness ==
    Ran(kBind) /\ Len(HandlerArgs) = 3 /\ result = OT_ERROR_INVALID_ARGS

\* C4: an open issued while the socket is open fails with Already, does not
\* call the transport's open and registers no callback; the callback is never
\* registered twice without a close between; an open issued while the socket is
\* closed (at the start, or after a close, which always leaves it closed)
\* succeeds.
C4_OpenRejectedWhileOpen ==
    /\ registrations <= 1
    /\ mSocket.open <=> registrations = 1
    /\ Ran(kOpen) /\ pre.socket.open =>
        /\ result = OT_ERROR_ALREADY
        /\ ~Called("otUdpOpen")
        /\ SessionUnchanged
    /\ Ran(kOpen) /\ ~pre.socket.open =>
        /\ result = OT_ERROR_NONE
        /\ Called("otUdpOpen")
        /\ mSocket.open
        /\ registrations = 1
    /\ Ran(kClose) => ~mSocket.open /\ registrations = 0

\* a second open without a close
C4_Witness ==
    Ran(kOpen) /\ pre.socket.open /\ result = OT_ERROR_ALREADY

\* C5: a send with more than 2 tokens (and at most 4) parses its first token as
\* the address and, when that succeeds, its second as the port; when either
\* fails it returns InvalidArguments with no message allocated and nothing
\* sent, and otherwise the transport is given the endpoint parsed.  A send with
\* 1 or 2 tokens parses no destination and gives the transport the unspecified
\* endpoint.
C5_DestinationFromFirstTwoTokens ==
    /\ Ran(kSend) /\ Len(HandlerArgs) \in {3, 4} =>
        /\ calls[1] = "ParseAsIp6Address"
        /\ 0 \in argsRead
        /\ ParseAsIp6Address(HandlerArgs[1]).error = OT_ERROR_NONE =>
            calls[2] = "ParseAsUint16" /\ 1 \in argsRead
        /\ ~DestinationValid =>
            /\ result = OT_ERROR_INVALID_ARGS
            /\ ~Called("otUdpNewMessage")
            /\ ~message.allocated
            /\ ~sent.called
            /\ SessionUnchanged
        /\ DestinationValid =>
            /\ Called("otUdpNewMessage")
            /\ sent.called =>
                sent.info = [addr |-> ParseAsIp6Address(HandlerArgs[1]).value,
                             port |-> ParseAsUint16(HandlerArgs[2]).value]
    /\ Ran(kSend) /\ Len(HandlerArgs) \in {1, 2} =>
        /\ ~Called("ParseAsIp6Address")
        /\ calls[1] = "otUdpNewMessage"
        /\ sent.called => sent.info = kUnspecifiedEndpoint

\* a three-token send whose port is out of range
C5_Witness ==
    /\ Ran(kSend)
    /\ HandlerArgs = <<kLoopback, kPortTooBig, kHello>>
    /\ result = OT_ERROR_INVALID_ARGS

\* the cycle of the auto-generated payload
kCycle ==
    Bytes(<<"0", "1", "2", "3", "4", "5", "6", "7", "8", "9",
      "A", "B", "C", "D", "E", "F", "G", "H", "I", "J", "K", "L", "M", "N", "O", "P", "Q", "R", "S", "T", "U", "V", "W", "X", "Y", "Z",
      "a", "b", "c", "d", "e", "f", "g", "h", "i", "j", "k", "l", "m", "n", "o", "p", "q", "r", "s", "t", "u", "v", "w", "x", "y", "z">>)

\* the last send was given -s and a length that parses, after the destination if any
AutoSend ==
    /\ Ran(kSend)
    /\ \/ Len(HandlerArgs) = 2 /\ HandlerArgs[1] = kMarkerS
             /\ ParseAsUint16(HandlerArgs[2]).error = OT_ERROR_NONE
       \/ Len(HandlerArgs) = 4 /\ DestinationValid /\ HandlerArgs[3] = kMarkerS
             /\ ParseAsUint16(HandlerArgs[4]).error = OT_ERROR_NONE
    /\ message.allocated

AutoLength == ParseAsUint16(HandlerArgs[Len(HandlerArgs)]).value

\* C6: when no append fails, the payload built for -s L has exactly L bytes and
\* byte i (0-based) is character i mod 62 of the cycle 0-9, A-Z, a-z, whatever
\* commands ran before (checked for L up to MaxAutoLength).
C6_AutoPayloadIsTheCycle ==
    AutoSend /\ NoAppendFailed =>
        /\ Len(message.bytes) = AutoLength
        /\ \A i \in 1..Len(message.bytes) :
                message.bytes[i] = kCycle[((i - 1) % Len(kCycle)) + 1]
        /\ sent.called /\ sent.bytes = message.bytes

\* the longest auto-generated payload, built
C6_Witness ==
    /\ AutoSend
    /\ HandlerArgs = <<kMarkerS, ToDec(MaxAutoLength)>>
    /\ Len(message.bytes) = MaxAutoLength

\* the last send was given -x and a value, after the destination if any
HexSend ==
    /\ Ran(kSend)
    /\ \/ Len(HandlerArgs) = 2 /\ HandlerArgs[1] = kMarkerX
       \/ Len(HandlerArgs) = 4 /\ DestinationValid /\ HandlerArgs[3] = kMarkerX
    /\ message.allocated

HexValue == HandlerArgs[Len(HandlerArgs)]

ValidHex(str) == Len(str) % 2 = 0 /\ \A i \in 1..Len(str) : IsHexDigit(str[i])

\* C7: when no append fails, the payload built for -x H, H a valid hex string of
\* even length, has len(H)/2 bytes whose hex encoding is H up to the case of
\* the letters, also when H spans several 50-byte segments, and the builder
\* succeeds: the send goes on to the transport.
C7_HexPayloadRoundTrip ==
    HexSend /\ ValidHex(HexValue) /\ NoAppendFailed =>
        /\ 2 * Len(message.bytes) = Len(HexValue)
        /\ HexEncode(message.bytes) = ToLower(HexValue)
        /\ sent.called /\ sent.bytes = message.bytes
        /\ result # OT_ERROR_INVALID_ARGS /\ result # OT_ERROR_PENDING

\* a hex string of more than two segments, built and handed over
C7_Witness ==
    /\ HexSend
    /\ ValidHex(HexValue)
    /\ Len(message.bytes) > 2 * kBufferSize
    /\ message.handed = 1

\* C8: bind and connect with two tokens of which the address or the port does
\* not parse return InvalidArguments, do not call the transport and leave the
\* session as it was.
C8_BadEndpointRejected ==
    (Ran(kBind) \/ Ran(kConnect)) /\ Len(HandlerArgs) = 2 /\ ~DestinationValid =>
        /\ result = OT_ERROR_INVALID_ARGS
        /\ ~Called("otUdpBind")
        /\ ~Called("otUdpConnect")
        /\ SessionUnchanged

\* a connect whose port is out of range
C8_Witness ==
    Ran(kConnect) /\ HandlerArgs = <<kLoopback, kPortTooBig>> /\ result = OT_ERROR_INVALID_ARGS

\* C9: under preemptive delivery the four fragments of one notification are in
\* the output stream in order and with nothing between them.
C9_ReceiveLineContiguous ==
    \A i, j \in 1..Len(stream) :
        (i < j /\ stream[i].src = "receive" /\ stream[j].src = "receive"
               /\ stream[i].id = stream[j].id) =>
            \A k \in i..j : stream[k].src = "receive" /\ stream[k].id = stream[i].id

\* the index (1-based) of the token that opens the payload of the last send
PayloadAt == IF Len(HandlerArgs) > 2 THEN 3 ELSE 1

\* C10: a 4-token send with a valid destination whose third token is no marker
\* does not fail with InvalidArguments; it appends the third token as the text
\* payload and hands the message to the transport (when the message is
\* allocated and the append succeeds) and never reads the fourth token.  A
\* token after the payload's first token is read only by a send of 2 or 4
\* tokens.  A marker with no token after it fails with InvalidArguments after
\* the message was allocated; the message is freed and nothing is sent.
C10_PayloadTokens ==
    /\ Ran(kSend) /\ Len(HandlerArgs) = 4 /\ DestinationValid
            /\ HandlerArgs[3] \notin Markers =>
        /\ result # OT_ERROR_INVALID_ARGS
        /\ 3 \notin argsRead
        /\ lastEnv.allocOk /\ NoAppendFailed =>
            /\ message.bytes = Bytes(HandlerArgs[3])
            /\ sent.called /\ sent.bytes = Bytes(HandlerArgs[3])
            /\ lastEnv.transportOk => message.handed = 1
    /\ Ran(kSend) /\ PayloadAt \in argsRead => Len(HandlerArgs) \in {2, 4}
    /\ Ran(kSend) /\ Len(HandlerArgs) \in {1, 3} /\ (Len(HandlerArgs) = 3 => DestinationValid)
            /\ HandlerArgs[Len(HandlerArgs)] \in Markers /\ lastEnv.allocOk =>
        /\ result = OT_ERROR_INVALID_ARGS
        /\ message.allocated
        /\ message.freed = 1
        /\ message.handed = 0
        /\ ~sent.called
        /\ ~Called("otMessageAppend")

\* a four-token send whose third token is text and whose fourth is left alone
C10_Witness ==
    /\ Ran(kSend)
    /\ HandlerArgs = <<kLoopback, kPort, kHello, kHexHello>>
    /\ message.handed = 1
    /\ message.bytes = Bytes(kHello)

====
